---- MODULE Spec2Model ----
(***************************************************************************)
(* Model of ompy.ensemble.Ensemble (src/ompy/ensemble.py): generation of   *)
(* an ensemble of perturbed spectra, pushed through unfolding and the      *)
(* first generation method, with per-draw files used as a cache, and the   *)
(* standard deviation of every stage.                                      *)
(*                                                                         *)
(* A matrix / ndarray is a record [shape |-> <<rows, cols>>, values |->    *)
(* the cells, row by row].  An optional value (a file that may be absent,  *)
(* an attribute that may not be set) is a sequence of length 0 or 1.       *)
(* A standard deviation is kept exactly, as its square: the variance of    *)
(* the population as a reduced fraction <<num, den>>; <<0, 0>> is nan.     *)
(*                                                                         *)
(* Spec is generate() as the code runs it, one draw after the other.       *)
(* SpecPar runs the same loop body once per draw in parallel workers and   *)
(* joins them before the reduction.                                        *)
(***************************************************************************)
EXTENDS Integers, Sequences, FiniteSets, TLC

VARIABLES
    ref,                     \* self.raw: the reference spectrum
    unfolder,                \* self.unfolder
    first_generation_method, \* self.first_generation_method
    files,                   \* save_path: the per-draw files {stage}_{step}.m
    summary,                 \* save_path: raw.m, unfolded_std.m, first_std.m
    regenerate,              \* self.regenerate (not set before the first call)
    self_firstgen,           \* self.firstgen
    std_raw, std_unfolded, std_firstgen, \* self.std_*
    firstgen_ensemble,       \* self.firstgen_ensemble
    pc,                      \* where generate() is
    number, method,          \* arguments of the running (or last) call
    step,                    \* loop variable of generate()
    raw, unfolded,           \* locals of the loop body
    raw_ensemble, unfolded_ensemble, fg_ensemble, \* local stacks
    raised,                  \* the exception that ended the last call, or ""
    entryHad,                \* history: per-draw files present when the call began
    loaded, computed, written, \* history: what the stages of this call did
    used,                    \* history: the collaborators this call runs with
    resumes,                 \* history: the call before this one was aborted
    asked,                   \* history: the last request of this call to np.random
    repeats,                 \* history: this call repeats the completed call before
                             \* it (same arguments, regenerate false, cache full before both)
    steady,                  \* history: the save directory was new, every call
                             \* so far ran with the collaborators of the first
                             \* call, and no call with regenerate true ended
                             \* part-way through a draw
    previous,                \* history: the regenerate argument of the call
                             \* before this one, if there was one
    argument,                \* history: the regenerate argument of this call
    calls,                   \* number of generate() calls so far
    workers                  \* parallel loop only: the loop body of each draw

vars == <<ref, unfolder, first_generation_method, files, summary, regenerate,
          self_firstgen, std_raw, std_unfolded, std_firstgen,
          firstgen_ensemble, pc, number, method, step, raw, unfolded,
          raw_ensemble, unfolded_ensemble, fg_ensemble, raised, entryHad,
          loaded, computed, written, used, resumes, repeats, calls, asked,
          workers, steady, argument, previous>>

-----------------------------------------------------------------------------
(* Bounds *)

MaxN == 2

MaxDraw == 1

MaxCalls == 2

\* generate() calls in the parallel specification
MaxParCalls == 1

\* Shape and cell values of the reference spectra examined: one cell, with
\* a negative, a zero or a positive count.
RefShape == <<1, 1>>

RefValues == {0 - 1, 0, 1}

\* A method name generate_raw does not know stands for all of them.
Methods == {"gaussian", "poisson", "bogus"}

Stages == {"raw", "unfolded", "firstgen"}

SummaryNames == {"raw.m", "unfolded_std.m", "first_std.m"}

\* Collaborators the caller may assign; "None" is the value __init__ leaves.
Unfolders == {"None", "id", "double"}

FirstGenerationMethods == {"None", "id", "cut"}

\* Outcome of one read or write of the save directory.
IO == {"ok", "fail"}

-----------------------------------------------------------------------------
(* Arrays *)

Size(shape) == shape[1] * shape[2]

Matrix(shape, values) == [shape |-> shape, values |-> values]

Max(a, b) == IF a >= b THEN a ELSE b

RECURSIVE Gcd(_, _)
Gcd(a, b) == IF b = 0 THEN a ELSE Gcd(b, a % b)

RECURSIVE SumSeq(_)
SumSeq(s) == IF s = <<>> THEN 0 ELSE Head(s) + SumSeq(Tail(s))

\* np.zeros((n, *shape)): a stack of n cells-arrays
Zeros(n, shape) ==
    [n |-> n, shape |-> shape,
     cells |-> [k \in 1..n |-> [j \in 1..Size(shape) |-> 0]]]

\* ensemble.shape
StackShape(e) == <<e.n>> \o e.shape

Store_AtFirst(e, k, values) == [e EXCEPT !.cells[1] = values]

\* ensemble[k, :, :] = values   (k counts from 0)
Store(e, k, values) == [e EXCEPT !.cells[k + 1] = values]

\* np.std(xs): the population variance of xs, reduced; nan for no sample
StdCell(xs) ==
    LET n == Len(xs)
        num == n * SumSeq([i \in 1..n |-> xs[i] * xs[i]]) - SumSeq(xs) * SumSeq(xs)
        den == n * n
        g == Gcd(num, den)
    IN  IF n = 0 THEN <<0, 0>> ELSE <<num \div g, den \div g>>

\* Matrix(np.std(ensemble, axis=0), ..., state='std')
Std(e) ==
    Matrix(e.shape,
           [j \in 1..Size(e.shape) |-> StdCell([k \in 1..e.n |-> e.cells[k][j]])])

-----------------------------------------------------------------------------
(* Perturbation models *)

\* What a computation hands back: an exception (raised # "") or one array m;
\* invoked tells whether the perturbation model / collaborator was entered,
\* asked holds the request it made to np.random, if it made one.
Raise(kind, invoked) ==
    [raised |-> kind, invoked |-> invoked, m |-> <<>>, asked |-> <<>>]

Return(m) == [raised |-> "", invoked |-> TRUE, m |-> <<m>>, asked |-> <<>>]

Drawn(q, m) == [raised |-> "", invoked |-> TRUE, m |-> <<m>>, asked |-> <<q>>]

\* Attributes of the Matrix value object (ompy/matrix.py): its data model
\* has values, the axes Eg and Ex, the state tag, shape and save().
MatrixAttributes == {"values", "Eg", "Ex", "state", "shape", "save"}

\* np.where(values > 0, values, 0): the number under the square root of std
Radicand(v) == IF v > 0 THEN v ELSE 0

\* np.random.normal(loc, scale=sqrt(rad)): a scale of 0 gives loc itself;
\* otherwise any number, here the integers of -1..MaxDraw.
NormalSupport(loc, rad) == IF rad = 0 THEN {loc} ELSE (0 - 1)..MaxDraw

\* perturbed[perturbed < 0] = 0
Clamp(x) == IF x < 0 THEN 0 ELSE x

\* np.random.poisson(sqrt(rad)): a rate of 0 gives 0; otherwise any count.
PoissonSupport(rad) == IF rad = 0 THEN {0} ELSE 0..MaxDraw

\* lines 215-217: np.random.normal(size=shape, loc=values, scale=std), std
\* kept as its square
GaussianRequest(r) ==
    [dist |-> "normal", loc |-> r.values,
     scale2 |-> [j \in 1..Size(r.shape) |-> Radicand(r.values[j])]]

\* lines 227-228: np.random.poisson(std), the rate std kept as its square
PoissonRequest(r) ==
    [dist |-> "poisson",
     lam2 |-> [j \in 1..Size(r.shape) |-> Radicand(r.values[j])]]

\* Ensemble.generate_gaussian: reads self.raw.value (not .values) first.
generate_gaussian(r) ==
    IF "value" \notin MatrixAttributes
    THEN {Raise("AttributeError", TRUE)}
    ELSE LET q == GaussianRequest(r)
         IN  {Drawn(q, Matrix(r.shape, [j \in 1..Size(r.shape) |-> Clamp(d[j])])) :
                d \in {f \in [1..Size(r.shape) -> (0 - 1)..Max(MaxDraw, 0)] :
                         \A j \in 1..Size(r.shape) :
                            f[j] \in NormalSupport(q.loc[j], q.scale2[j])}}

\* Ensemble.generate_poisson
generate_poisson(r) ==
    LET q == PoissonRequest(r)
    IN  {Drawn(q, Matrix(r.shape, d)) :
           d \in {f \in [1..Size(r.shape) -> 0..MaxDraw] :
                    \A j \in 1..Size(r.shape) : f[j] \in PoissonSupport(q.lam2[j])}}

Perturb_DefaultPoisson(m, r) ==
    IF m = "gaussian" THEN generate_gaussian(r) ELSE generate_poisson(r)

\* generate_raw, lines 157-163: the choice of the model by name
Perturb(m, r) ==
    IF m = "gaussian" THEN generate_gaussian(r)
    ELSE IF m = "poisson" THEN generate_poisson(r)
    ELSE {Raise("ValueError", FALSE)}

-----------------------------------------------------------------------------
(* Collaborators: pure functions of a matrix *)

ApplyUnfolder_NoneIsIdentity(u, m) ==
    IF u = "double"
    THEN Return(Matrix(m.shape, [j \in 1..Size(m.shape) |-> 2 * m.values[j]]))
    ELSE Return(m)

\* self.unfolder.unfold(raw); None has no attribute unfold
ApplyUnfolder(u, m) ==
    IF u = "None" THEN Raise("AttributeError", FALSE)
    ELSE IF u = "id" THEN Return(m)
    ELSE Return(Matrix(m.shape, [j \in 1..Size(m.shape) |-> 2 * m.values[j]]))

\* self.first_generation_method(unfolded); None is not callable.
\* "cut" drops the last row (the output may have another shape).
ApplyFirstGeneration(f, m) ==
    IF f = "None" THEN Raise("TypeError", FALSE)
    ELSE IF f = "id" THEN Return(m)
    ELSE Return(Matrix(<<m.shape[1] - 1, m.shape[2]>>,
                       SubSeq(m.values, 1, (m.shape[1] - 1) * m.shape[2])))

-----------------------------------------------------------------------------
(* The cached stage: generate_raw, unfold and first_generation share it *)

\* os.path.isfile(path)
IsFile(path) == files[path] # <<>>

CacheHit_NoNot(path) == IsFile(path) /\ regenerate = <<TRUE>>

CacheHit_Never(path) == FALSE

\* os.path.isfile(path) and not self.regenerate
CacheHit(path) == IsFile(path) /\ regenerate = <<FALSE>>

\* What a stage can do for `path`, given the outcomes of its computation:
\* load the file, or compute and save; a read or write may fail (OSError),
\* and a write that fails is taken to leave the file as it was.
StageResults(path, outcomes) ==
    IF CacheHit(path)
    THEN {[raised |-> IF io = "ok" THEN "" ELSE "OSError",
           m |-> IF io = "ok" THEN files[path] ELSE <<>>,
           load |-> io = "ok", compute |-> FALSE, write |-> FALSE,
           asked |-> <<>>] : io \in IO}
    ELSE UNION {
           IF o.raised # ""
           THEN {[raised |-> o.raised, m |-> <<>>, load |-> FALSE,
                  compute |-> o.invoked, write |-> FALSE, asked |-> o.asked]}
           ELSE {[raised |-> IF io = "ok" THEN "" ELSE "OSError",
                  m |-> IF io = "ok" THEN o.m ELSE <<>>,
                  load |-> FALSE, compute |-> TRUE, write |-> io = "ok",
                  asked |-> o.asked] : io \in IO}
           : o \in outcomes}

OnException_Partial == "std_raw"

\* An exception leaves generate(): the loop has no try/except.
OnException == "error"

\* Effect of a stage on the save directory and on the history of the call.
StageEffect(path, r) ==
    /\ files' = IF r.write THEN [files EXCEPT ![path] = r.m] ELSE files
    /\ loaded' = IF r.load THEN loaded \cup {path} ELSE loaded
    /\ computed' = IF r.compute THEN computed \cup {path} ELSE computed
    /\ written' = IF r.write THEN written \cup {path} ELSE written
    /\ raised' = r.raised
    /\ asked' = IF r.asked # <<>> THEN r.asked ELSE asked

-----------------------------------------------------------------------------
(* The save directory and the reference spectra *)

PerDrawFiles == Stages \X (0..(MaxN - 1))

References ==
    {Matrix(RefShape, v) : v \in [1..Size(RefShape) -> RefValues]}

\* All per-draw files of the draws 0..n-1 are among `had`.
Full(had, n) == \A p \in Stages \X (0..(n - 1)) : p \in had

Returned == pc \in {"idle", "done", "error"}

attrs == <<std_raw, std_unfolded, std_firstgen, firstgen_ensemble>>

config == <<ref, unfolder, first_generation_method>>

args == <<regenerate, number, method, entryHad, used, resumes, repeats, calls,
          steady, argument, previous>>

stacks == <<raw_ensemble, unfolded_ensemble, fg_ensemble>>

-----------------------------------------------------------------------------
(* The caller assigns the collaborators between calls *)

\* ensemble.unfolder = u (an Unfolder, or None again)
SetUnfolder(u) ==
    /\ Returned
    /\ calls < MaxCalls
    /\ u # unfolder
    /\ unfolder' = u
    /\ UNCHANGED <<workers, ref, first_generation_method, files, summary, self_firstgen,
                   attrs, pc, step, raw, unfolded, stacks, raised, loaded,
                   computed, written, asked, args>>

\* ensemble.first_generation_method = f (a callable, or None again)
SetFirstGenerationMethod(f) ==
    /\ Returned
    /\ calls < MaxCalls
    /\ f # first_generation_method
    /\ first_generation_method' = f
    /\ UNCHANGED <<workers, ref, unfolder, files, summary, self_firstgen,
                   attrs, pc, step, raw, unfolded, stacks, raised, loaded,
                   computed, written, asked, args>>

-----------------------------------------------------------------------------
(* Ensemble.generate *)

SetRegenerate_Sticky(old, r) == IF old = <<TRUE>> THEN old ELSE <<r>>

\* line 98: self.regenerate = regenerate
SetRegenerate(old, r) == <<r>>

\* lines 98-101, and the loop header at line 103
Generate(n, m, r) ==
    /\ Returned
    /\ calls < MaxCalls
    /\ calls' = calls + 1
    /\ used' = <<unfolder, first_generation_method>>
    /\ resumes' = (pc = "error")
    /\ repeats' = /\ pc = "done"
                   /\ regenerate = <<FALSE>> /\ r = FALSE
                   /\ n = number /\ m = method
                   /\ Full(entryHad, number)
    /\ steady' = /\ steady
                  /\ (calls = 0 \/ used = <<unfolder, first_generation_method>>)
                  /\ ~(/\ pc = "error" /\ argument
                        /\ \E s \in Stages : <<s, step>> \in written)
    /\ previous' = IF calls = 0 THEN <<>> ELSE <<argument>>
    /\ regenerate' = SetRegenerate(regenerate, r)
    /\ argument' = r
    /\ number' = n
    /\ method' = m
    /\ raw_ensemble' = Zeros(n, ref.shape)
    /\ unfolded_ensemble' = Zeros(n, ref.shape)
    /\ fg_ensemble' = Zeros(n, ref.shape)
    /\ step' = 0
    /\ pc' = IF n > 0 THEN "raw" ELSE "std_raw"
    /\ raw' = <<>>
    /\ unfolded' = <<>>
    /\ raised' = ""
    /\ entryHad' = {p \in PerDrawFiles : IsFile(p)}
    /\ loaded' = {}
    /\ computed' = {}
    /\ written' = {}
    /\ asked' = <<>>
    /\ UNCHANGED <<workers, config, files, summary, self_firstgen, attrs>>

\* line 104: raw = self.generate_raw(step, method)
GenerateRaw ==
    /\ pc = "raw"
    /\ \E r \in StageResults(<<"raw", step>>, Perturb(method, ref)) :
         /\ StageEffect(<<"raw", step>>, r)
         /\ raw' = r.m
         /\ pc' = IF r.raised # "" THEN OnException ELSE "unfold"
    /\ UNCHANGED <<workers, config, summary, self_firstgen, attrs, step, unfolded,
                   stacks, args>>

\* line 105: unfolded = self.unfold(step, raw)
Unfold ==
    /\ pc = "unfold"
    /\ \E r \in StageResults(<<"unfolded", step>>, {ApplyUnfolder(unfolder, raw[1])}) :
         /\ StageEffect(<<"unfolded", step>>, r)
         /\ unfolded' = r.m
         /\ pc' = IF r.raised # "" THEN OnException ELSE "firstgen"
    /\ UNCHANGED <<workers, config, summary, self_firstgen, attrs, step, raw,
                   stacks, args>>

NextInRange_SkipOne(k) == k + 2

\* line 103: for step in range(number), the index after k
NextInRange(k) == k + 1

\* line 112: firstgen_ensemble.shape != firstgen.shape
ShapeDiffers(e, fg) == StackShape(e) # fg.shape

\* lines 112-113: the stack the first generation matrix is written to
Reallocate(e, fg, n) ==
    IF ShapeDiffers(e, fg) THEN Zeros(n, fg.shape) ELSE e

\* lines 106-115: firstgen = self.first_generation(step, unfolded), then the
\* three results go to the stacks and the loop moves on
FirstGeneration ==
    /\ pc = "firstgen"
    /\ \E r \in StageResults(<<"firstgen", step>>,
                             {ApplyFirstGeneration(first_generation_method, unfolded[1])}) :
         /\ StageEffect(<<"firstgen", step>>, r)
         /\ IF r.raised # ""
            THEN /\ pc' = OnException
                 /\ UNCHANGED <<stacks, self_firstgen, step>>
            ELSE /\ raw_ensemble' = Store(raw_ensemble, step, raw[1].values)
                 /\ unfolded_ensemble' = Store(unfolded_ensemble, step, unfolded[1].values)
                 /\ self_firstgen' = r.m
                 /\ fg_ensemble' = Store(Reallocate(fg_ensemble, r.m[1], number),
                                         step, r.m[1].values)
                 /\ step' = NextInRange(step)
                 /\ pc' = IF NextInRange(step) < number THEN "raw" ELSE "std_raw"
    /\ UNCHANGED <<workers, config, summary, attrs, raw, unfolded, args>>

save_KeepsOld(dir, name, matrix) == dir

\* Ensemble.save: matrix.save(os.path.join(self.save_path, name))
save(dir, name, matrix) == [dir EXCEPT ![name] = <<matrix>>]

\* lines 118-121: raw_std, saved as raw.m
StdRaw ==
    /\ pc = "std_raw"
    /\ \E io \in IO :
         IF io = "ok"
         THEN /\ summary' = save(summary, "raw.m", Std(raw_ensemble))
              /\ pc' = "std_unfolded"
              /\ raised' = ""
         ELSE /\ pc' = OnException
              /\ raised' = "OSError"
              /\ UNCHANGED summary
    /\ UNCHANGED <<workers, config, files, self_firstgen, attrs, step, raw, unfolded,
                   stacks, loaded, computed, written, asked, args>>

\* lines 123-126: unfolded_std, saved as unfolded_std.m
StdUnfolded ==
    /\ pc = "std_unfolded"
    /\ \E io \in IO :
         IF io = "ok"
         THEN /\ summary' = save(summary, "unfolded_std.m", Std(unfolded_ensemble))
              /\ pc' = "std_firstgen"
              /\ raised' = ""
         ELSE /\ pc' = OnException
              /\ raised' = "OSError"
              /\ UNCHANGED summary
    /\ UNCHANGED <<workers, config, files, self_firstgen, attrs, step, raw, unfolded,
                   stacks, loaded, computed, written, asked, args>>

\* lines 128-137: firstgen_std with the axes of self.firstgen, saved as
\* first_std.m; then the results become attributes
StdFirstgen ==
    /\ pc = "std_firstgen"
    /\ \E io \in IO :
         IF self_firstgen = <<>>
         THEN /\ pc' = OnException
              /\ raised' = "AttributeError"
              /\ UNCHANGED <<summary, attrs>>
         ELSE IF io = "ok"
         THEN /\ summary' = save(summary, "first_std.m", Std(fg_ensemble))
              /\ std_raw' = <<Std(raw_ensemble)>>
              /\ std_unfolded' = <<Std(unfolded_ensemble)>>
              /\ std_firstgen' = <<Std(fg_ensemble)>>
              /\ firstgen_ensemble' = <<fg_ensemble>>
              /\ pc' = "done"
              /\ raised' = ""
         ELSE /\ pc' = OnException
              /\ raised' = "OSError"
              /\ UNCHANGED <<summary, attrs>>
    /\ UNCHANGED <<workers, config, files, self_firstgen, step, raw, unfolded,
                   stacks, loaded, computed, written, asked, args>>

-----------------------------------------------------------------------------
(* State after Ensemble(raw, save_path): line 69 keeps a save directory    *)
(* that exists, with the files an earlier Ensemble left in it.             *)

NoFiles == [p \in PerDrawFiles |-> <<>>]

NoSummary == [s \in SummaryNames |-> <<>>]

\* The files raw_k.m of an earlier call, which stopped after writing them
\* (its unfolder was not assigned); ms are the cells of its draws.
RawOnly(ms) ==
    [p \in PerDrawFiles |->
        IF p[1] = "raw" /\ p[2] < Len(ms)
        THEN <<Matrix(RefShape, ms[p[2] + 1])>> ELSE <<>>]

\* lines 112-115 over the draws 0..k-1 of an earlier call that returned ms
RECURSIVE LoopFirstgen(_, _)
LoopFirstgen(ms, k) ==
    IF k = 0 THEN Zeros(Len(ms), RefShape)
    ELSE Store(Reallocate(LoopFirstgen(ms, k - 1), Matrix(RefShape, ms[k]), Len(ms)),
               k - 1, ms[k])

\* What an earlier completed generate(Len(ms)) left, whose draws had the
\* cells ms and whose collaborators handed their input on.
Completed(ms) ==
    LET e == [n |-> Len(ms), shape |-> RefShape, cells |-> ms]
    IN  [files |-> [p \in PerDrawFiles |->
                       IF p[2] < Len(ms)
                       THEN <<Matrix(RefShape, ms[p[2] + 1])>> ELSE <<>>],
         summary |-> save(save(save(NoSummary, "raw.m", Std(e)),
                               "unfolded_std.m", Std(e)),
                          "first_std.m", Std(LoopFirstgen(ms, Len(ms))))]

\* The save directories examined: a new one, raw_0.m alone, and those of a
\* completed call of one draw and of two draws.
InitialDirectories ==
    {[files |-> NoFiles, summary |-> NoSummary],
     [files |-> RawOnly(<<<<1>>>>), summary |-> NoSummary],
     Completed(<<<<1>>>>),
     Completed(<<<<1>>, <<0>>>>)}

Init ==
    /\ ref \in References
    /\ unfolder = "None"
    /\ first_generation_method = "None"
    /\ \E d \in InitialDirectories :
         /\ files = d.files
         /\ summary = d.summary
         /\ steady = (d.files = NoFiles)
    /\ regenerate = <<>>
    /\ self_firstgen = <<>>
    /\ std_raw = <<>>
    /\ std_unfolded = <<>>
    /\ std_firstgen = <<>>
    /\ firstgen_ensemble = <<>>
    /\ pc = "idle"
    /\ number = 0
    /\ method = "poisson"
    /\ step = 0
    /\ raw = <<>>
    /\ unfolded = <<>>
    /\ raw_ensemble = Zeros(0, RefShape)
    /\ unfolded_ensemble = Zeros(0, RefShape)
    /\ fg_ensemble = Zeros(0, RefShape)
    /\ raised = ""
    /\ entryHad = {}
    /\ loaded = {}
    /\ computed = {}
    /\ written = {}
    /\ used = <<"None", "None">>
    /\ resumes = FALSE
    /\ repeats = FALSE
    /\ calls = 0
    /\ asked = <<>>
    /\ workers = <<>>
    /\ argument = FALSE
    /\ previous = <<>>

-----------------------------------------------------------------------------
(* generate(), one draw after the other *)

Next ==
    \/ \E u \in Unfolders : SetUnfolder(u)
    \/ \E f \in FirstGenerationMethods : SetFirstGenerationMethod(f)
    \/ \E n \in 0..MaxN, m \in Methods, r \in BOOLEAN : Generate(n, m, r)
    \/ GenerateRaw
    \/ Unfold
    \/ FirstGeneration
    \/ StdRaw
    \/ StdUnfolded
    \/ StdFirstgen

Spec == Init /\ [][Next]_vars

-----------------------------------------------------------------------------
(* The loop of generate() with its bodies run in parallel: one worker per   *)
(* draw index runs lines 104-115 for its index, statement by statement, in  *)
(* any interleaving with the others; a stage is two steps, the one that     *)
(* reads or writes its file and its return.  The reduction (lines 117-137)  *)
(* follows when all workers have ended.  Each worker has its own raw,       *)
(* unfolded and firstgen; the stacks, self.firstgen and the save directory  *)
(* are shared.                                                              *)

Path_SharedByAll(s, k) == <<s, 0>>

\* lines 151, 178, 199: the file of stage s for draw k
Path(s, k) == <<s, k>>

\* numpy: values of shape `from` can be assigned to a slot of shape `to`
Broadcastable(from, to) ==
    \A i \in 1..2 : from[i] = to[i] \/ from[i] = 1

\* numpy: the cells the slot then holds
BroadcastTo(values, from, to) ==
    [j \in 1..Size(to) |->
        LET r == (j - 1) \div to[2]
            c == (j - 1) % to[2]
        IN  values[(IF from[1] = 1 THEN 0 ELSE r) * from[2]
                   + (IF from[2] = 1 THEN 0 ELSE c) + 1]]

\* current is what the stage a worker is in is about to return (the local
\* current, unfolded or firstgen of generate_raw, unfold, first_generation).
Worker ==
    [pc |-> "raw", current |-> <<>>, raw |-> <<>>, unfolded |-> <<>>,
     firstgen |-> <<>>, raised |-> ""]

\* A stage in worker w as far as its return statement: the test of the
\* cache, then the load, or the computation and the save.  The file is
\* written here; an exception leaves the stage and ends the worker.
InStage(w, path, r) ==
    IF r.raised # ""
    THEN /\ StageEffect(path, r)
         /\ workers' = [workers EXCEPT ![w].pc = "error", ![w].raised = r.raised]
    ELSE /\ StageEffect(path, [r EXCEPT !.load = FALSE, !.compute = FALSE,
                                        !.asked = <<>>])
         /\ workers' = [workers EXCEPT ![w].current = <<r>>]

\* The return statement of the stage and the assignment of what it returns
\* to the local `field` of the loop body.
AfterStage(w, path, field, then) ==
    LET r == workers[w].current[1]
    IN  /\ StageEffect(path, [r EXCEPT !.write = FALSE])
        /\ workers' = [workers EXCEPT ![w].pc = then, ![w][field] = r.m,
                                      ![w].current = <<>>]

At(w, where) == pc = "parallel" /\ w \in DOMAIN workers /\ workers[w].pc = where

\* The worker is in a stage, before (FALSE) or at (TRUE) its return statement.
Inside(w, where, returning) ==
    At(w, where) /\ (workers[w].current # <<>>) = returning

unused == <<step, raw, unfolded>>

\* lines 98-101, then one worker per index of range(number)
ParGenerate(n, m, r) ==
    /\ Returned
    /\ calls < MaxParCalls
    /\ calls' = calls + 1
    /\ used' = <<unfolder, first_generation_method>>
    /\ regenerate' = SetRegenerate(regenerate, r)
    /\ argument' = r
    /\ previous' = IF calls = 0 THEN <<>> ELSE <<argument>>
    /\ number' = n
    /\ method' = m
    /\ raw_ensemble' = Zeros(n, ref.shape)
    /\ unfolded_ensemble' = Zeros(n, ref.shape)
    /\ fg_ensemble' = Zeros(n, ref.shape)
    /\ workers' = [w \in 0..(n - 1) |-> Worker]
    /\ pc' = "parallel"
    /\ raised' = ""
    /\ entryHad' = {p \in PerDrawFiles : IsFile(p)}
    /\ loaded' = {}
    /\ computed' = {}
    /\ written' = {}
    /\ asked' = <<>>
    /\ UNCHANGED <<config, files, summary, self_firstgen, attrs, unused,
                   resumes, repeats, steady>>

\* lines 151-164 in worker w: generate_raw as far as its return
ParGenerateRaw(w) ==
    /\ Inside(w, "raw", FALSE)
    /\ \E r \in StageResults(Path("raw", w), Perturb(method, ref)) :
         InStage(w, Path("raw", w), r)
    /\ UNCHANGED <<config, summary, self_firstgen, attrs, pc, unused, stacks, args>>

\* line 165, and the assignment of line 104, in worker w
ParReturnRaw(w) ==
    /\ Inside(w, "raw", TRUE)
    /\ AfterStage(w, Path("raw", w), "raw", "unfold")
    /\ UNCHANGED <<config, summary, self_firstgen, attrs, pc, unused, stacks, args>>

\* lines 178-185 in worker w: unfold as far as its return
ParUnfold(w) ==
    /\ Inside(w, "unfold", FALSE)
    /\ \E r \in StageResults(Path("unfolded", w),
                             {ApplyUnfolder(unfolder, workers[w].raw[1])}) :
         InStage(w, Path("unfolded", w), r)
    /\ UNCHANGED <<config, summary, self_firstgen, attrs, pc, unused, stacks, args>>

\* line 186, and the assignment of line 105, in worker w
ParReturnUnfolded(w) ==
    /\ Inside(w, "unfold", TRUE)
    /\ AfterStage(w, Path("unfolded", w), "unfolded", "firstgen")
    /\ UNCHANGED <<config, summary, self_firstgen, attrs, pc, unused, stacks, args>>

\* lines 199-206 in worker w: first_generation as far as its return
ParFirstGeneration(w) ==
    /\ Inside(w, "firstgen", FALSE)
    /\ \E r \in StageResults(Path("firstgen", w),
                             {ApplyFirstGeneration(first_generation_method,
                                                   workers[w].unfolded[1])}) :
         InStage(w, Path("firstgen", w), r)
    /\ UNCHANGED <<config, summary, self_firstgen, attrs, pc, unused, stacks, args>>

\* line 207, and the assignment of line 106, in worker w
ParReturnFirstgen(w) ==
    /\ Inside(w, "firstgen", TRUE)
    /\ AfterStage(w, Path("firstgen", w), "firstgen", "store_raw")
    /\ UNCHANGED <<config, summary, self_firstgen, attrs, pc, unused, stacks, args>>

\* line 108 in worker w
ParStoreRaw(w) ==
    /\ At(w, "store_raw")
    /\ raw_ensemble' = Store(raw_ensemble, w, workers[w].raw[1].values)
    /\ workers' = [workers EXCEPT ![w].pc = "store_unfolded"]
    /\ UNCHANGED <<config, files, summary, self_firstgen, attrs, pc, unused,
                   unfolded_ensemble, fg_ensemble, raised, loaded, computed, written, asked, args>>

\* line 109 in worker w
ParStoreUnfolded(w) ==
    /\ At(w, "store_unfolded")
    /\ unfolded_ensemble' = Store(unfolded_ensemble, w, workers[w].unfolded[1].values)
    /\ workers' = [workers EXCEPT ![w].pc = "check"]
    /\ UNCHANGED <<config, files, summary, self_firstgen, attrs, pc, unused,
                   raw_ensemble, fg_ensemble, raised, loaded, computed, written, asked, args>>

\* line 112 in worker w: the test
ParCheckShape(w) ==
    /\ At(w, "check")
    /\ workers' = [workers EXCEPT ![w].pc =
                     IF ShapeDiffers(fg_ensemble, workers[w].firstgen[1])
                     THEN "reallocate" ELSE "set_firstgen"]
    /\ UNCHANGED <<config, files, summary, self_firstgen, attrs, pc, unused,
                   stacks, raised, loaded, computed, written, asked, args>>

\* line 113 in worker w: the name firstgen_ensemble is bound to a new array
ParReallocate(w) ==
    /\ At(w, "reallocate")
    /\ fg_ensemble' = Zeros(number, workers[w].firstgen[1].shape)
    /\ workers' = [workers EXCEPT ![w].pc = "set_firstgen"]
    /\ UNCHANGED <<config, files, summary, self_firstgen, attrs, pc, unused,
                   raw_ensemble, unfolded_ensemble, raised, loaded, computed, written, asked, args>>

\* line 114 in worker w: self.firstgen = firstgen
ParSetFirstgen(w) ==
    /\ At(w, "set_firstgen")
    /\ self_firstgen' = workers[w].firstgen
    /\ workers' = [workers EXCEPT ![w].pc = "store_firstgen"]
    /\ UNCHANGED <<config, files, summary, attrs, pc, unused, stacks, raised,
                   loaded, computed, written, asked, args>>

\* line 115 in worker w: the array firstgen_ensemble names by now gets the
\* values (ValueError where they cannot be broadcast to its slot)
ParStoreFirstgen(w) ==
    /\ At(w, "store_firstgen")
    /\ LET fg == workers[w].firstgen[1]
       IN  IF Broadcastable(fg.shape, fg_ensemble.shape)
           THEN /\ fg_ensemble' = Store(fg_ensemble, w,
                                        BroadcastTo(fg.values, fg.shape, fg_ensemble.shape))
                /\ workers' = [workers EXCEPT ![w].pc = "end"]
           ELSE /\ fg_ensemble' = fg_ensemble
                /\ workers' = [workers EXCEPT ![w].pc = "error",
                                              ![w].raised = "ValueError"]
    /\ UNCHANGED <<config, files, summary, self_firstgen, attrs, pc, unused,
                   raw_ensemble, unfolded_ensemble, raised, loaded, computed, written, asked, args>>

\* All workers have ended: the reduction follows (line 117).
ParJoin ==
    /\ pc = "parallel"
    /\ \A w \in DOMAIN workers : workers[w].pc = "end"
    /\ pc' = "std_raw"
    /\ step' = number
    /\ raised' = ""
    /\ UNCHANGED <<workers, config, files, summary, self_firstgen, attrs, raw,
                   unfolded, stacks, loaded, computed, written, asked, args>>

\* No worker runs any more and one has raised: its exception ends the call.
ParAbort ==
    /\ pc = "parallel"
    /\ \A w \in DOMAIN workers : workers[w].pc \in {"end", "error"}
    /\ \E w \in DOMAIN workers :
         /\ workers[w].pc = "error"
         /\ raised' = workers[w].raised
    /\ pc' = OnException
    /\ UNCHANGED <<workers, config, files, summary, self_firstgen, attrs, unused,
                   stacks, loaded, computed, written, asked, args>>

NextPar ==
    \/ \E u \in Unfolders : SetUnfolder(u)
    \/ \E f \in FirstGenerationMethods : SetFirstGenerationMethod(f)
    \/ \E n \in 0..MaxN, m \in Methods, r \in BOOLEAN : ParGenerate(n, m, r)
    \/ \E w \in 0..(MaxN - 1) : ParGenerateRaw(w)
    \/ \E w \in 0..(MaxN - 1) : ParReturnRaw(w)
    \/ \E w \in 0..(MaxN - 1) : ParUnfold(w)
    \/ \E w \in 0..(MaxN - 1) : ParReturnUnfolded(w)
    \/ \E w \in 0..(MaxN - 1) : ParFirstGeneration(w)
    \/ \E w \in 0..(MaxN - 1) : ParReturnFirstgen(w)
    \/ \E w \in 0..(MaxN - 1) : ParStoreRaw(w)
    \/ \E w \in 0..(MaxN - 1) : ParStoreUnfolded(w)
    \/ \E w \in 0..(MaxN - 1) : ParCheckShape(w)
    \/ \E w \in 0..(MaxN - 1) : ParReallocate(w)
    \/ \E w \in 0..(MaxN - 1) : ParSetFirstgen(w)
    \/ \E w \in 0..(MaxN - 1) : ParStoreFirstgen(w)
    \/ ParJoin
    \/ ParAbort
    \/ StdRaw
    \/ StdUnfolded
    \/ StdFirstgen

SpecPar == Init /\ [][NextPar]_vars

-----------------------------------------------------------------------------
(* Vocabulary of the properties *)

StagePc(s) == IF s = "raw" THEN "raw" ELSE IF s = "unfolded" THEN "unfold" ELSE "firstgen"

\* What the stage s hands to generate(): raw, unfolded, firstgen (kept as
\* self.firstgen)
StageResult(s) ==
    IF s = "raw" THEN raw ELSE IF s = "unfolded" THEN unfolded ELSE self_firstgen

InLoop(p) == p \in {"raw", "unfold", "firstgen"}

Supported == method \in {"gaussian", "poisson"}

Configured == used[1] # "None" /\ used[2] # "None"

Names(n) == Stages \X (0..(n - 1))

SummaryOf(a, b, c) ==
    [x \in SummaryNames |->
        IF x = "raw.m" THEN a ELSE IF x = "unfolded_std.m" THEN b ELSE c]

AllZero(m) == \A j \in 1..Size(m.shape) : m.values[j] = <<0, 1>>

StrictlyPositive(m) == \A j \in 1..Size(m.shape) : m.values[j] > 0

\* The save of the file p was what failed in the call that has just ended.
SaveFailedAt(p) == pc = "error" /\ raised = "OSError" /\ p[2] = step

-----------------------------------------------------------------------------
(* C1..C10 *)

\* C1: a stage that finds its file while regenerate is false writes no file
\* and computes nothing, and what it returns is the file's content.
C1_CacheHit ==
    [][\A s \in Stages :
          (pc = StagePc(s) /\ IsFile(<<s, step>>) /\ regenerate = <<FALSE>>)
          => /\ files' = files
             /\ computed' = computed
             /\ written' = written
             /\ raised' \in {"", "OSError"}
             /\ raised' = "" => /\ StageResult(s)' = files[<<s, step>>]
                                /\ loaded' = loaded \cup {<<s, step>>}]_vars

\* C1 witness: a call with regenerate false has loaded all six files of two
\* draws (every stage took the cached branch) and reached the reduction.
C1_Witness ==
    /\ pc = "std_raw"
    /\ regenerate = <<FALSE>>
    /\ number = 2
    /\ loaded = Names(2)

\* C2: a stage that does not find its file, or runs with regenerate true,
\* (supported method, collaborators assigned, no storage failure) computes
\* its output from its own input, writes it to its file and no other, reads
\* no file and returns what it wrote.
C2_CacheMiss ==
    [][\A s \in Stages :
          (/\ pc = StagePc(s)
           /\ ~(IsFile(<<s, step>>) /\ regenerate = <<FALSE>>)
           /\ Supported /\ Configured
           /\ raised' # "OSError")
          => /\ raised' = ""
             /\ loaded' = loaded
             /\ computed' = computed \cup {<<s, step>>}
             /\ written' = written \cup {<<s, step>>}
             /\ files' = [files EXCEPT ![<<s, step>>] = StageResult(s)']
             /\ s = "raw" => StageResult(s)'[1].shape = ref.shape
             /\ s = "unfolded" => unfolded' = ApplyUnfolder(unfolder, raw[1]).m
             /\ s = "firstgen" =>
                  self_firstgen' = ApplyFirstGeneration(first_generation_method, unfolded[1]).m]_vars

\* C3: a call that repeats the completed call before it (same number and
\* method, regenerate false in both, every per-draw file of the draws
\* present before both) changes no per-draw file, ends only by completing
\* or by a storage failure, and on completing leaves the three summaries,
\* as attributes and as files, equal to those of the call before.
C3_Idempotence ==
    [][(repeats /\ number >= 1 /\ ~Returned)
       => /\ files' = files
          /\ pc' = "error" => raised' = "OSError"
          /\ pc' = "done" =>
               /\ std_raw' = std_raw
               /\ std_unfolded' = std_unfolded
               /\ std_firstgen' = std_firstgen
               /\ summary' = SummaryOf(std_raw, std_unfolded, std_firstgen)]_vars

\* C3 witness: the second of two such calls with N = 2 has completed, with
\* a non-zero raw standard deviation.
C3_Witness ==
    /\ pc = "done"
    /\ repeats
    /\ number = 2
    /\ \E j \in 1..Size(std_raw[1].shape) : std_raw[1].values[j] # <<0, 1>>

\* C4 as stated: a call with N >= 1 and an unsupported method (collaborators
\* assigned, no storage failure) ends with the unsupported-method error,
\* having computed nothing and having read or written no file of the draw
\* at which it ends, whatever the save directory holds.
C4_Original ==
    (/\ calls >= 1 /\ Returned
     /\ ~Supported /\ number >= 1 /\ Configured
     /\ raised # "OSError")
    => /\ pc = "error"
       /\ raised = "ValueError"
       /\ computed = {}
       /\ \A s \in Stages : <<s, step>> \notin loaded \cup written

\* C4 amended: with an unsupported method no perturbation is ever computed
\* and no raw file written; generate_raw raises the unsupported-method error
\* exactly where it does not find its file or regenerate is true, without
\* reading, writing or computing anything, so the call ends at the first
\* such draw, before any other stage of that draw; the draws before it were
\* loaded from raw files present when the call began; a call that completes
\* ran with regenerate false on raw files present for every draw.
C4_Unsupported ==
    [][/\ (~Supported /\ pc = "raw" /\ ~(IsFile(<<"raw", step>>) /\ regenerate = <<FALSE>>))
          => /\ pc' = "error"
             /\ raised' = "ValueError"
             /\ UNCHANGED <<files, loaded, computed, written, summary, attrs>>
       /\ (~Supported /\ pc = "raw" /\ IsFile(<<"raw", step>>) /\ regenerate = <<FALSE>>)
          => raised' # "ValueError"
       /\ (~Supported' /\ calls' >= 1)
          => /\ \A k \in 0..(MaxN - 1) : <<"raw", k>> \notin computed' \cup written'
             /\ raised' = "ValueError"
                  => /\ pc' = "error"
                     /\ \A s \in Stages : <<s, step'>> \notin loaded' \cup written' \cup computed'
                     /\ regenerate' = <<TRUE>> \/ <<"raw", step'>> \notin entryHad'
             /\ \A k \in 0..(number' - 1) :
                  (k < step' \/ (k = step' /\ pc' \in {"unfold", "firstgen"}))
                  => /\ regenerate' = <<FALSE>>
                     /\ <<"raw", k>> \in entryHad' \cap loaded'
             /\ (pc' = "done" /\ number' >= 1)
                  => /\ regenerate' = <<FALSE>>
                     /\ \A k \in 0..(number' - 1) : <<"raw", k>> \in entryHad']_vars

\* C4 witness: an unsupported method got past draw 0 (raw_0 cached, its
\* unfolding computed) and raised at draw 1.
C4_Witness ==
    /\ pc = "error"
    /\ raised = "ValueError"
    /\ method = "bogus"
    /\ number = 2
    /\ step = 1
    /\ <<"unfolded", 0>> \in computed

\* C5: when the first generation matrices of all draws of a completed call
\* have one shape, the retained firstgen_ensemble holds the matrix of draw k
\* at index k.
C5_FirstgenRetention ==
    (/\ pc = "done" /\ number >= 1
     /\ \A k \in 0..(number - 1) :
          files[<<"firstgen", k>>][1].shape = files[<<"firstgen", 0>>][1].shape)
    => \A k \in 0..(number - 1) :
          firstgen_ensemble[1].cells[k + 1] = files[<<"firstgen", k>>][1].values

\* C6: a completed call on an empty save directory whose draws all equal
\* the reference, with identity unfolder and first generation method, has
\* the three standard deviations zero in every cell.
C6_ZeroVariance ==
    (/\ pc = "done" /\ number >= 1
     /\ entryHad = {}
     /\ used = <<"id", "id">>
     /\ \A k \in 1..number : raw_ensemble.cells[k] = ref.values)
    => /\ AllZero(std_raw[1])
       /\ AllZero(std_unfolded[1])
       /\ AllZero(std_firstgen[1])

\* C7: a call with regenerate false (supported method, collaborators
\* assigned, no storage failure) that follows an aborted call and finds the
\* per-draw files partly there loads exactly those of its draws that were
\* there, computes and writes exactly the missing ones, and completes with
\* all of them present and the three summaries made.
C7_Resumption ==
    (/\ Returned /\ resumes
     /\ regenerate = <<FALSE>> /\ number >= 1
     /\ Supported /\ Configured
     /\ entryHad # {} /\ ~Full(entryHad, number)
     /\ raised # "OSError")
    => /\ pc = "done"
       /\ loaded = entryHad \cap Names(number)
       /\ written = Names(number) \ entryHad
       /\ computed = written
       /\ \A p \in Names(number) : IsFile(p)
       /\ \A x \in SummaryNames : summary[x] # <<>>
       /\ std_raw # <<>> /\ std_unfolded # <<>> /\ std_firstgen # <<>>

\* C8: while the loop over the draws runs, no summary file is written and
\* none of std_raw, std_unfolded, std_firstgen, firstgen_ensemble is
\* assigned; a stage that raises ends the call there, with no retry: only a
\* new call leaves the aborted state.
C8_NoPartialResult ==
    [][/\ (InLoop(pc) \/ InLoop(pc'))
          => summary' = summary /\ attrs' = attrs
       /\ (InLoop(pc) /\ raised' # "")
          => pc' = "error" /\ step' = step
       /\ InLoop(pc) => (raised' # "" \/ pc' # "error")
       /\ pc = "error"
          => \/ pc' = "error" /\ summary' = summary /\ attrs' = attrs
             \/ calls' = calls + 1]_vars

\* C8 witness: a call that had written files was aborted at draw 1 by a
\* storage failure, after an earlier call had assigned std_raw.
C8_Witness ==
    /\ pc = "error"
    /\ raised = "OSError"
    /\ number = 2
    /\ step = 1
    /\ std_raw # <<>>
    /\ written # {}

\* C9: for a reference with strictly positive values, every perturbation
\* that has been asked for (gaussian or poisson) has returned a grid of the
\* reference's shape with no negative value (seen as the raw file written
\* from it, unless that write is what failed).
C9_PerturbationOutput ==
    \A k \in 0..(MaxN - 1) :
       (/\ <<"raw", k>> \in computed
        /\ StrictlyPositive(ref)
        /\ ~SaveFailedAt(<<"raw", k>>))
       => /\ <<"raw", k>> \in written
          /\ files[<<"raw", k>>][1].shape = ref.shape
          /\ \A j \in 1..Size(ref.shape) : files[<<"raw", k>>][1].values[j] >= 0

\* C10: every perturbation that has been asked for (gaussian or poisson)
\* has returned 0 in every cell where the reference is 0.
C10_ZeroCellsStayZero ==
    \A k \in 0..(MaxN - 1) :
       (/\ <<"raw", k>> \in computed
        /\ \E j \in 1..Size(ref.shape) : ref.values[j] = 0
        /\ ~SaveFailedAt(<<"raw", k>>))
       => /\ <<"raw", k>> \in written
          /\ \A j \in 1..Size(ref.shape) :
                ref.values[j] = 0 => files[<<"raw", k>>][1].values[j] = 0

-----------------------------------------------------------------------------
(* C11..C19 *)

\* C11: a stage that has to compute (its file absent, or regenerate true)
\* with its collaborator not assigned (None) ends the call there with the
\* error of using None (AttributeError for unfolder.unfold, TypeError for
\* calling first_generation_method), computing, reading and writing nothing;
\* where its file is loaded instead, None does no harm.  A call entered
\* with a collaborator not assigned never computes or writes a file of that
\* stage, and if a draw of it has to compute that stage it never gets to
\* the reduction: it writes no summary and assigns no result.
C11_MissingCollaborator ==
    [][/\ (/\ pc = "unfold" /\ unfolder = "None"
           /\ ~(IsFile(<<"unfolded", step>>) /\ regenerate = <<FALSE>>))
          => /\ pc' = "error"
             /\ raised' = "AttributeError"
             /\ UNCHANGED <<files, loaded, computed, written, summary, attrs>>
       /\ (/\ pc = "firstgen" /\ first_generation_method = "None"
           /\ ~(IsFile(<<"firstgen", step>>) /\ regenerate = <<FALSE>>))
          => /\ pc' = "error"
             /\ raised' = "TypeError"
             /\ UNCHANGED <<files, loaded, computed, written, summary, attrs>>
       /\ (/\ pc = "unfold" /\ unfolder = "None"
           /\ IsFile(<<"unfolded", step>>) /\ regenerate = <<FALSE>>)
          => raised' \in {"", "OSError"}
       /\ (/\ pc = "firstgen" /\ first_generation_method = "None"
           /\ IsFile(<<"firstgen", step>>) /\ regenerate = <<FALSE>>)
          => raised' \in {"", "OSError"}
       /\ \A i \in 1..2 :
            (calls' >= 1 /\ used'[i] = "None")
            => LET s == IF i = 1 THEN "unfolded" ELSE "firstgen"
               IN  /\ \A k \in 0..(MaxN - 1) : <<s, k>> \notin computed' \cup written'
                   /\ (\E k \in 0..(number' - 1) :
                          regenerate' = <<TRUE>> \/ <<s, k>> \notin entryHad')
                      => /\ pc' \notin {"std_raw", "std_unfolded", "std_firstgen", "done"}
                         /\ ~Returned => (summary' = summary /\ attrs' = attrs)]_vars

\* C11 witness: a call entered with first_generation_method None loaded
\* firstgen_0, went through draw 0 and failed at draw 1, where firstgen_1
\* had to be computed.
C11_Witness ==
    /\ pc = "error"
    /\ raised = "TypeError"
    /\ used[1] # "None" /\ used[2] = "None"
    /\ number = 2
    /\ step = 1
    /\ <<"firstgen", 0>> \in loaded
    /\ <<"unfolded", 1>> \in written

\* C12: a call generate(1, method, regenerate) with a supported method and
\* both collaborators assigned, not ended by a storage failure, has
\* completed, and the three summaries (attributes and files) are 0 in
\* every cell.
C12_SingleDraw ==
    (/\ calls >= 1 /\ Returned
     /\ number = 1 /\ Supported /\ Configured
     /\ raised # "OSError")
    => /\ pc = "done"
       /\ raised = ""
       /\ AllZero(std_raw[1]) /\ AllZero(std_unfolded[1]) /\ AllZero(std_firstgen[1])
       /\ summary = SummaryOf(std_raw, std_unfolded, std_firstgen)

\* C13: every perturbation computed in a call with a supported method asked
\* np.random for what the method says, cell by cell for the reference value
\* v: gaussian, a normal draw with centre v and standard deviation
\* sqrt(max(v, 0)), the result clamped at 0 (so no cell is negative, and a
\* cell of deviation 0 is max(v, 0)); poisson, a Poisson draw of rate
\* sqrt(max(v, 0)) (so a cell of rate 0 is 0).  Deviation and rate are
\* compared as their squares.
C13_PerturbationParameters ==
    \A k \in 0..(MaxN - 1) :
       (<<"raw", k>> \in computed /\ Supported)
       => /\ asked # <<>>
          /\ asked[1].dist = (IF method = "gaussian" THEN "normal" ELSE "poisson")
          /\ \A j \in 1..Size(ref.shape) :
                IF asked[1].dist = "normal"
                THEN /\ asked[1].loc[j] = ref.values[j]
                     /\ asked[1].scale2[j] = Max(ref.values[j], 0)
                ELSE asked[1].lam2[j] = Max(ref.values[j], 0)
          /\ ~SaveFailedAt(<<"raw", k>>)
             => /\ <<"raw", k>> \in written
                /\ \A j \in 1..Size(ref.shape) :
                      LET x == files[<<"raw", k>>][1].values[j]
                          v == ref.values[j]
                      IN  /\ x >= 0
                          /\ (method = "gaussian" /\ v <= 0) => x = 0
                          /\ (method = "poisson" /\ v <= 0) => x = 0

\* C14: the draws are taken in ascending order from 0, one step at a time,
\* and in each draw the stages run raw, unfold, first generation, each once
\* (its file is loaded or computed once in the call); unfolding gets the raw
\* matrix returned for this draw and the first generation gets the unfolded
\* matrix returned for this draw; what was returned goes to index step of
\* the stacks; the reduction starts, and summaries are written, only when
\* all of the draws 0..N-1 have been through the three stages.
C14_StageOrdering ==
    [][/\ pc = "raw"
          => /\ pc' \in {"unfold", "error"}
             /\ step' = step
             /\ pc' = "unfold"
                  => /\ raw' = files'[<<"raw", step>>]
                     /\ <<"raw", step>> \notin loaded \cup computed
                     /\ <<"raw", step>> \in loaded' \cup computed'
       /\ pc = "unfold"
          => /\ pc' \in {"firstgen", "error"}
             /\ step' = step
             /\ raw' = raw
             /\ pc' = "firstgen"
                  => /\ unfolded' = files'[<<"unfolded", step>>]
                     /\ <<"unfolded", step>> \notin loaded \cup computed
                     /\ <<"unfolded", step>> \in loaded' \cup computed'
                     /\ <<"unfolded", step>> \in computed'
                          => unfolded' = ApplyUnfolder(unfolder, raw[1]).m
       /\ pc = "firstgen"
          => /\ pc' \in {"raw", "std_raw", "error"}
             /\ pc' # "error"
                  => /\ step' = step + 1
                     /\ pc' = "raw" <=> step + 1 < number
                     /\ self_firstgen' = files'[<<"firstgen", step>>]
                     /\ <<"firstgen", step>> \notin loaded \cup computed
                     /\ <<"firstgen", step>> \in loaded' \cup computed'
                     /\ <<"firstgen", step>> \in computed'
                          => self_firstgen' =
                               ApplyFirstGeneration(first_generation_method, unfolded[1]).m
                     /\ raw_ensemble'.cells[step + 1] = raw[1].values
                     /\ unfolded_ensemble'.cells[step + 1] = unfolded[1].values
                     /\ fg_ensemble'.cells[step + 1] = self_firstgen'[1].values
       /\ (calls' >= 1 /\ InLoop(pc'))
          => /\ step' < number'
             /\ \A p \in loaded' \cup computed' : p[2] <= step'
             /\ \A k \in 0..(step' - 1) : \A x \in Stages : <<x, k>> \in loaded' \cup computed'
       /\ (calls' >= 1 /\ pc' \in {"std_raw", "std_unfolded", "std_firstgen", "done"})
          => /\ step' = number'
             /\ loaded' \cup computed' = Names(number')
             /\ loaded' \cap computed' = {}
       /\ summary' # summary
          => /\ pc \in {"std_raw", "std_unfolded", "std_firstgen"}
             /\ step = number
             /\ loaded \cup computed = Names(number)]_vars

\* C14 witness: a call of two draws has completed, some of its stages
\* loaded and some computed.
C14_Witness ==
    /\ pc = "done"
    /\ number = 2
    /\ loaded # {}
    /\ computed # {}
    /\ <<"unfolded", 1>> \in computed

\* The firstgen stack the sequential loop leaves after the draws 0..k-1,
\* given what first_generation returned for them (their files).
RECURSIVE SequentialFirstgen(_)
SequentialFirstgen(k) ==
    IF k = 0 THEN Zeros(number, ref.shape)
    ELSE LET fg == files[<<"firstgen", k - 1>>][1]
         IN  Store(Reallocate(SequentialFirstgen(k - 1), fg, number), k - 1, fg.values)

\* In this step of the parallel loop only the worker of draw k acts.
OnlyWorker(k) ==
    /\ workers'[k] # workers[k]
    /\ \A v \in DOMAIN workers : v # k => workers'[v] = workers[v]

\* Files and the raw and unfolded stacks in a step of the parallel loop:
\* the file of a stage for draw k and index k of the stacks are written by
\* the worker of draw k only, once, with what the sequential body would
\* write there (the loaded file kept, or the output computed from this
\* draw's input).
DisjointWrites ==
    /\ \A s \in Stages, k \in DOMAIN workers :
          files'[<<s, k>>] # files[<<s, k>>]
          => /\ OnlyWorker(k)
             /\ workers[k].pc = StagePc(s)
             /\ ~(IsFile(<<s, k>>) /\ regenerate = <<FALSE>>)
             /\ <<s, k>> \in written' \ written
             /\ \A p \in PerDrawFiles : p # <<s, k>> => files'[p] = files[p]
    /\ \A k \in DOMAIN workers :
          /\ (workers[k].pc = "raw" /\ workers'[k].pc = "unfold")
             => workers'[k].raw = files'[<<"raw", k>>]
          /\ (workers[k].pc = "unfold" /\ workers'[k].pc = "firstgen")
             => /\ workers'[k].unfolded = files'[<<"unfolded", k>>]
                /\ <<"unfolded", k>> \in computed'
                     => workers'[k].unfolded = ApplyUnfolder(unfolder, workers[k].raw[1]).m
          /\ (workers[k].pc = "firstgen" /\ workers'[k].pc = "store_raw")
             => /\ workers'[k].firstgen = files'[<<"firstgen", k>>]
                /\ <<"firstgen", k>> \in computed'
                     => workers'[k].firstgen =
                          ApplyFirstGeneration(first_generation_method,
                                               workers[k].unfolded[1]).m
          /\ raw_ensemble'.cells[k + 1] # raw_ensemble.cells[k + 1]
             => /\ OnlyWorker(k)
                /\ workers[k].pc = "store_raw"
          /\ unfolded_ensemble'.cells[k + 1] # unfolded_ensemble.cells[k + 1]
             => /\ OnlyWorker(k)
                /\ workers[k].pc = "store_unfolded"

\* At the join the raw and unfolded stacks hold, at index k, what the
\* stages returned for draw k, as after the sequential loop.
JoinedAsSequential ==
    \A k \in 0..(number - 1) :
       /\ raw_ensemble'.cells[k + 1] = files[<<"raw", k>>][1].values
       /\ unfolded_ensemble'.cells[k + 1] = files[<<"unfolded", k>>][1].values

\* C15 as stated: in the parallel loop no two workers write the same file
\* or the same index of a stack, and at the join the three stacks and the
\* files are those of the sequential loop.
C15_Original ==
    [][/\ (pc = "parallel" /\ pc' = "parallel")
          => /\ DisjointWrites
             /\ \A k \in DOMAIN workers :
                   (/\ fg_ensemble.shape = fg_ensemble'.shape
                    /\ fg_ensemble'.cells[k + 1] # fg_ensemble.cells[k + 1])
                   => OnlyWorker(k)
       /\ (pc = "parallel" /\ pc' = "std_raw")
          => /\ JoinedAsSequential
             /\ fg_ensemble' = SequentialFirstgen(number)]_vars

\* C15 amended: in the parallel loop no two workers write the same file or
\* the same index of the raw and unfolded stacks, and at the join these
\* two stacks and the files are those of the sequential loop.  (Nothing is
\* said of the firstgen stack, which a worker replaces as a whole.)
C15_ParallelDraws ==
    [][/\ (pc = "parallel" /\ pc' = "parallel") => DisjointWrites
       /\ (pc = "parallel" /\ pc' = "std_raw") => JoinedAsSequential]_vars

\* C15 witness: two workers that computed and wrote all their files have
\* joined, with different raw draws, and the firstgen stack they leave is
\* not the one of the sequential loop.
C15_Witness ==
    /\ pc = "std_raw"
    /\ number = 2
    /\ DOMAIN workers = 0..1
    /\ written = Names(2)
    /\ raw_ensemble.cells[1] # raw_ensemble.cells[2]
    /\ fg_ensemble # SequentialFirstgen(2)

\* C16: a call that completes leaves in raw.m, unfolded_std.m and
\* first_std.m the matrices it assigns to std_raw, std_unfolded and
\* std_firstgen (the standard deviations of its own stacks), whatever these
\* files held before; the reduction and its saves change no per-draw file.
C16_SummaryPersistence ==
    [][/\ pc \in {"std_raw", "std_unfolded", "std_firstgen"} => files' = files
       /\ (pc # "done" /\ pc' = "done")
          => /\ std_raw' = <<Std(raw_ensemble)>>
             /\ std_unfolded' = <<Std(unfolded_ensemble)>>
             /\ std_firstgen' = <<Std(fg_ensemble)>>
             /\ summary' = SummaryOf(std_raw', std_unfolded', std_firstgen')
       /\ (pc = "std_raw" /\ raised' = "") => summary'["raw.m"] = <<Std(raw_ensemble)>>
       /\ (pc = "std_unfolded" /\ raised' = "")
          => summary'["unfolded_std.m"] = <<Std(unfolded_ensemble)>>]_vars

\* C16 witness: a call of two draws made anew has completed after a call
\* that completed, with a raw standard deviation that is not zero.
C16_Witness ==
    /\ pc = "done"
    /\ calls >= 2
    /\ ~resumes
    /\ regenerate = <<TRUE>>
    /\ number = 2
    /\ summary = SummaryOf(std_raw, std_unfolded, std_firstgen)
    /\ \E j \in 1..Size(std_raw[1].shape) : std_raw[1].values[j] # <<0, 1>>

\* The entries of draw k of a completed call follow from one another: the
\* unfolded entry is the unfolder applied to the raw entry and the first
\* generation matrix is the first generation method applied to the unfolded
\* entry, in the files and in the raw and unfolded stacks, for every draw.
PipelineConsistent ==
    \A k \in 0..(number - 1) :
       LET rawk == Matrix(ref.shape, raw_ensemble.cells[k + 1])
           unfk == Matrix(ref.shape, unfolded_ensemble.cells[k + 1])
       IN  /\ files[<<"raw", k>>] = <<rawk>>
           /\ files[<<"unfolded", k>>] = <<unfk>>
           /\ <<unfk>> = ApplyUnfolder(used[1], rawk).m
           /\ files[<<"firstgen", k>>] = ApplyFirstGeneration(used[2], unfk).m

\* The firstgen stack holds, for every draw, the first generation matrix of
\* that draw.
FirstgenStackConsistent ==
    \A k \in 0..(number - 1) :
       fg_ensemble.cells[k + 1] = files[<<"firstgen", k>>][1].values

\* The firstgen stack as lines 112-115 leave it: the first generation matrix
\* of the last draw at the last index, 0 at every index before it.
FirstgenStackLastOnly ==
    \A k \in 0..(number - 1) :
       fg_ensemble.cells[k + 1] =
          IF k = number - 1 THEN files[<<"firstgen", k>>][1].values
          ELSE [j \in 1..Size(fg_ensemble.shape) |-> 0]

\* C17 as stated: a call with regenerate false that has completed, both
\* collaborators assigned, after whatever calls went before, has
\* consistent entries for every draw, the firstgen stack included.
C17_Original ==
    (/\ pc = "done" /\ regenerate = <<FALSE>>
     /\ number >= 1 /\ Configured)
    => PipelineConsistent /\ FirstgenStackConsistent

\* C17 amended: when the save directory was new when the Ensemble was made,
\* every call so far ran with the same collaborators and no call with
\* regenerate true ended part-way through a draw (after writing one of the
\* draw's files), the files and the raw and unfolded stacks are consistent
\* for every draw; the firstgen stack holds the first generation matrix of
\* the last draw only, and 0 at the index of every earlier draw.
C17_PipelineConsistency ==
    (/\ pc = "done" /\ regenerate = <<FALSE>> /\ steady
     /\ number >= 1 /\ Configured)
    => PipelineConsistent /\ FirstgenStackLastOnly

\* C17 witness: on a new save directory the second call, after an aborted
\* one, both with regenerate false and the same collaborators, has
\* completed two draws, some stages loaded and some computed, with a
\* doubling unfolder and raw entries that are not zero: the firstgen file
\* of draw 0 is not zero and index 0 of the firstgen stack is.
C17_Witness ==
    /\ pc = "done"
    /\ steady
    /\ calls = 2
    /\ resumes
    /\ number = 2
    /\ used = <<"double", "id">>
    /\ loaded # {}
    /\ computed # {}
    /\ raw_ensemble.cells[1] # <<0>>
    /\ raw_ensemble.cells[2] # <<0>>
    /\ files[<<"firstgen", 0>>][1].values # <<0>>
    /\ fg_ensemble.cells[1] = <<0>>

\* C18: whether a stage loads or computes depends on the regenerate
\* argument of the call it runs in and on its file only: with the argument
\* false a stage that finds its file computes and writes nothing; with the
\* argument true, or without its file, a stage loads nothing, and with the
\* argument true a stage that returns has computed and written its file.
\* self.regenerate is this call's argument all through the call, whatever
\* the calls before were given.
C18_RegeneratePerCall ==
    [][/\ calls' >= 1 => regenerate' = <<argument'>>
       /\ \A s \in Stages :
            pc = StagePc(s)
            => /\ (~argument /\ IsFile(<<s, step>>))
                  => /\ files' = files
                     /\ computed' = computed
                     /\ written' = written
                     /\ raised' = "" => <<s, step>> \in loaded'
               /\ (argument \/ ~IsFile(<<s, step>>))
                  => /\ loaded' = loaded
                     /\ raised' = "" => <<s, step>> \in computed' \cap written']_vars

\* C18 witness: the second call, with regenerate false, loaded every file
\* of its two draws and completed, after a first call with regenerate true.
C18_Witness ==
    /\ pc = "done"
    /\ calls = 2
    /\ ~argument
    /\ previous = <<TRUE>>
    /\ entryHad = Names(2)
    /\ number = 2
    /\ loaded = Names(2)

\* C19: a call generate(N, method, regenerate) for any N >= 0, with a
\* supported method and both collaborators assigned, not ended by a storage
\* failure, has completed, and std_raw, std_unfolded, std_firstgen and
\* firstgen_ensemble are those of this call's draws: the standard
\* deviations of, and the stack of, what the stages returned for the draws
\* 0..N-1.
C19_Completion ==
    (/\ calls >= 1 /\ Returned
     /\ Supported /\ Configured
     /\ raised # "OSError")
    => /\ pc = "done"
       /\ raised = ""
       /\ std_raw = <<Std(raw_ensemble)>>
       /\ std_unfolded = <<Std(unfolded_ensemble)>>
       /\ std_firstgen = <<Std(fg_ensemble)>>
       /\ firstgen_ensemble = <<fg_ensemble>>
       /\ raw_ensemble.n = number /\ unfolded_ensemble.n = number
       /\ fg_ensemble.n = number
       /\ \A k \in 0..(number - 1) :
             /\ raw_ensemble.cells[k + 1] = files[<<"raw", k>>][1].values
             /\ unfolded_ensemble.cells[k + 1] = files[<<"unfolded", k>>][1].values
             /\ fg_ensemble.cells[k + 1] = files[<<"firstgen", k>>][1].values

====
